---- MODULE Spec2Model ----
(***************************************************************************)
(* Asynchronous podcast generation pipeline of ephit (open_notebook):      *)
(* job submission, the generate_podcast worker, tiered artifact storage    *)
(* (S3 / local disk), status derivation and episode deletion.              *)
(*                                                                         *)
(* Strings are sequences of tokens.  Every delimiter character the code    *)
(* splits or tests on (":", "/", " ", "_") is a token of its own; all      *)
(* other tokens are delimiter-free chunks of characters.  Python's None    *)
(* and the empty string are both the empty sequence (both are falsy).      *)
(***************************************************************************)
EXTENDS Integers, Sequences, FiniteSets, TLC

\* ------------------------------------------------------------------ bounds
MaxEpisodes == 2     \* episodes ever created
MaxJobs == 2         \* commands ever submitted, when invocations run concurrently
MaxWorkers == 2      \* invocations the executor runs concurrently
SeqJobs == 1         \* commands ever submitted, when it runs one invocation at a time
MaxAttempts == 2     \* invocations of one command (the first run and its retries)
MaxTemps == 2        \* temporary files on the API host's disk at one time
MaxHandles == 2      \* client handles one process constructs
MaxIdLen == 3        \* characters of an owner id handed to build_episode_asset_key
MaxNameLen == 3      \* pieces of a profile name quoted in an error message
MaxCallers == 2      \* coroutines that are in a db_connection scope at one time

None == <<>>

\* ----------------------------------------------------------- string helpers
Startswith(s, p) == Len(s) >= Len(p) /\ SubSeq(s, 1, Len(p)) = p

Contains(s, tok) == \E i \in 1..Len(s) : s[i] = tok

FirstIndex(s, tok) == CHOOSE i \in 1..Len(s) : s[i] = tok /\ \A j \in 1..(i - 1) : s[j] # tok

RECURSIVE Split(_, _)
\* str.split(sep) for a one-character separator
Split(s, sep) ==
    IF Contains(s, sep)
    THEN LET i == FirstIndex(s, sep)
         IN  <<SubSeq(s, 1, i - 1)>> \o Split(SubSeq(s, i + 1, Len(s)), sep)
    ELSE <<s>>

\* str.split(sep, 1)
SplitOnce(s, sep) ==
    IF Contains(s, sep)
    THEN LET i == FirstIndex(s, sep)
         IN  <<SubSeq(s, 1, i - 1), SubSeq(s, i + 1, Len(s))>>
    ELSE <<s>>

LastIsFirst(q) == q[1]

Last(q) == q[Len(q)]

\* str.replace(a, b) for one-character a and b
Replace(s, a, b) == [i \in 1..Len(s) |-> IF s[i] = a THEN b ELSE s[i]]

\* ------------------------------------------------------------- identifiers
Users == {"u1", "u2"}
Names == {<<"ep1">>}

UserId(u) == <<"user", ":", u>>
EpisodeId(n) == <<"episode", ":", ToString(n)>>
CommandId(j) == <<"command", ":", ToString(j)>>

\* ------------------------------------------------------ object-store config
PlainBucket == <<"mybucket">>
ArnBucket == <<"arn", ":", "aws", ":", "s3", ":", "us-east-2", ":", "123", ":", "accesspoint", "/", "myap">>

EnvUnset == [bucket |-> None, key_id |-> FALSE, secret |-> FALSE, endpoint |-> None, region |-> None]
EnvPlain == [bucket |-> PlainBucket, key_id |-> TRUE, secret |-> TRUE, endpoint |-> None, region |-> None]
EnvArn == [bucket |-> ArnBucket, key_id |-> TRUE, secret |-> TRUE, endpoint |-> None, region |-> None]
EnvNoSecret == [bucket |-> PlainBucket, key_id |-> TRUE, secret |-> FALSE, endpoint |-> None, region |-> None]
Envs == {EnvUnset, EnvNoSecret, EnvPlain, EnvArn}

ArnPrefix == <<"arn", ":", "aws", ":", "s3", ":">>

\* an access-point ARN cut short after "accesspoint/"
ArnNoName == <<"arn", ":", "aws", ":", "s3", ":", "us-east-2", ":", "123", ":", "accesspoint", "/">>

\* values of S3_ENDPOINT_URL: a regional endpoint, an access-point alias
\* endpoint in the format the comments give (accesspoint-XYZ-s3alias...), and
\* one whose alias has no hyphen
EndpointRegional == <<"https", ":", "/", "/", "s3", ".", "us-east-2", ".amazonaws.com">>
EndpointAliasDocumented ==
    <<"https", ":", "/", "/", "accesspoint", "-", "xyz", "-", "s3alias", ".", "s3", "-",
      "accesspoint", ".", "us-east-2", ".amazonaws.com">>
EndpointAliasPlain ==
    <<"https", ":", "/", "/", "myalias", "-", "s3alias", ".", "s3", "-", "accesspoint", ".",
      "us-east-2", ".amazonaws.com">>

Buckets == {None, PlainBucket, ArnBucket, ArnNoName}
Endpoints == {None, EndpointRegional, EndpointAliasDocumented, EndpointAliasPlain}
Regions == {None, <<"us-east-2">>}
ConfigEnvs == [bucket : Buckets, key_id : BOOLEAN, secret : BOOLEAN, endpoint : Endpoints,
               region : Regions]

\* "-s3alias" in endpoint_url
HasS3Alias(url) == \E i \in 1..(Len(url) - 1) : url[i] = "-" /\ url[i + 1] = "s3alias"

\* re.search(r'//([^/-]+)-s3alias', endpoint_url): the positions <<first, last>>
\* of group 1 in every match
AliasMatches(url) ==
    {m \in (1..Len(url)) \X (1..Len(url)) :
        /\ m[1] >= 3 /\ m[1] <= m[2] /\ m[2] + 2 <= Len(url)
        /\ url[m[1] - 2] = "/" /\ url[m[1] - 1] = "/"
        /\ \A i \in m[1]..m[2] : url[i] \notin {"/", "-"}
        /\ url[m[2] + 1] = "-" /\ url[m[2] + 2] = "s3alias"}

\* _get_bucket_name
GetBucketName(e) ==
    IF e.bucket = None THEN None
    ELSE IF /\ e.endpoint # None /\ Contains(e.endpoint, "accesspoint")
            /\ HasS3Alias(e.endpoint) /\ AliasMatches(e.endpoint) # {}
         THEN LET m == CHOOSE x \in AliasMatches(e.endpoint) :
                           \A y \in AliasMatches(e.endpoint) : x[1] <= y[1]
              IN  SubSeq(e.endpoint, m[1], m[2])
    ELSE IF Startswith(e.bucket, ArnPrefix) /\ Len(Split(e.bucket, ":")) >= 6
         THEN Last(Split(Split(e.bucket, ":")[6], "/"))
         ELSE e.bucket

\* is_s3_configured with the bucket name alone
IsS3ConfiguredBucketOnly(e) == GetBucketName(e) # None

IsS3Configured(e) == GetBucketName(e) # None /\ e.key_id /\ e.secret

\* ------------------------------------------------------------- key and URI
S3Scheme == <<"s3", ":", "/", "/">>

\* a variant that keeps the table prefix and replaces the colon
BuildEpisodeAssetKeyKeepsPrefix(user_id, episode_id, filename) ==
    LET safe_user == IF user_id = None THEN <<"anonymous">> ELSE user_id
    IN  <<"episodes", "/">> \o Replace(safe_user, ":", "_") \o <<"/">>
            \o Replace(episode_id, ":", "_") \o <<"/">>
            \o Replace(Replace(filename, ":", "_"), " ", "_")

BuildEpisodeAssetKey(user_id, episode_id, filename) ==
    LET safe_user == IF user_id = None THEN <<"anonymous">> ELSE user_id
        clean_episode_id == IF Contains(episode_id, ":") THEN Last(Split(episode_id, ":")) ELSE episode_id
        clean_user_id == IF Contains(safe_user, ":") THEN Last(Split(safe_user, ":")) ELSE safe_user
        safe_filename == Replace(Replace(filename, ":", "_"), " ", "_")
    IN  <<"episodes", "/">> \o clean_user_id \o <<"/">> \o clean_episode_id \o <<"/">> \o safe_filename

\* parse_s3_url: <<bucket, key>>, or <<None, None>>
ParseS3Url(url) ==
    IF ~Startswith(url, S3Scheme) THEN <<None, None>>
    ELSE LET remainder == SubSeq(url, Len(S3Scheme) + 1, Len(url))
             parts == SplitOnce(remainder, "/")
         IN  IF Len(parts) # 2 THEN <<None, None>> ELSE <<parts[1], parts[2]>>

\* the canonical identifier upload_file returns
UploadUrl(e, key) == S3Scheme \o e.bucket \o <<"/">> \o key

\* upload_bucket in upload_file: S3_BUCKET_NAME as it is, or group 1 of the
\* alias pattern when the endpoint is an access-point endpoint that matches it
UploadBucket(e) ==
    IF /\ e.endpoint # None /\ Contains(e.endpoint, "accesspoint")
       /\ HasS3Alias(e.endpoint) /\ AliasMatches(e.endpoint) # {}
    THEN LET m == CHOOSE x \in AliasMatches(e.endpoint) :
                      \A y \in AliasMatches(e.endpoint) : x[1] <= y[1]
         IN  SubSeq(e.endpoint, m[1], m[2])
    ELSE e.bucket

\* the bucket the audio endpoint downloads from: os.getenv("S3_BUCKET_NAME")
StreamBucket(e) == e.bucket

\* ------------------------------------------------------------- local paths
DataFolder == <<"data">>
Cwd == <<"/", "app">>

Filename(name) == name \o <<".mp3">>
OutputDir(name) == DataFolder \o <<"/", "podcasts", "/", "episodes", "/">> \o name
FinalAudioPath(name) == OutputDir(name) \o <<"/", "audio", "/">> \o Filename(name)

\* Path.resolve(): an absolute path is kept, a relative one is anchored at the cwd
Resolve(p) == IF Len(p) > 0 /\ p[1] = "/" THEN p ELSE Cwd \o <<"/">> \o p

FileScheme == <<"file", ":", "/", "/">>

\* _resolve_audio_path
ResolveAudioPath(audio_file) ==
    IF Startswith(audio_file, FileScheme)
    THEN SubSeq(audio_file, Len(FileScheme) + 1, Len(audio_file))
    ELSE Resolve(audio_file)

\* ------------------------------------------------------------------- state
VARIABLES
    env,        \* process environment: the S3_* / AWS_* configuration
    client,     \* _S3_CLIENT of the worker process and of the API process: TRUE once
                \* that process has built its client
    episodes,   \* the episode table, in creation order (index = id = created)
    jobs,       \* the executor's commands, in submission order (index = id)
    workers,    \* worker invocations: position and local variables of each
    files,      \* absolute paths of the files on the local disk
    objects,    \* objects in the store: [bucket, key]
    uploaded,   \* history: the url each successful upload_file returned, with its key
    handles,    \* history: how many S3 client handles each process has constructed
    temps,      \* temporary files on the API host's disk (by number)
    serving,    \* temporary files whose HTTP response is still being sent
    pure,       \* arguments and results of the storage helpers called on their own
    caller,     \* the user the router's dependency resolved for the API request
                \* being served ("" before the first request)
    conn,       \* the db_connection scopes the process is in: position and locals
                \* of each (<<>> where no scope is followed)
    resp,       \* what the operation completed by the step just taken returned
    scope       \* the run's extent: executor pool size, job and episode caps, users,
                \* and whether the collaborators (database, engine, store, executor) may fail

vars == <<env, client, episodes, jobs, workers, files, objects, uploaded, handles, temps, serving,
          pure, resp, scope, caller, conn>>

Workers == 1..scope.pool

\* fields of a response that are not set: error_message = None, job_status = None
NoError == ""
NoStatus == ""

NoResp == [op |-> "none", id |-> 0, job |-> 0, code |-> 0, job_status |-> NoStatus,
           statuses |-> <<>>, audio |-> None, s3_key |-> None, s3_called |-> FALSE,
           fs_touched |-> FALSE, success |-> FALSE, error |-> NoError, upload |-> "none",
           found |-> FALSE, user |-> "", failing |-> {}, temp |-> 0,
           configured |-> FALSE, url |-> None]

\* pc: the stage the invocation is about to run; ep / command / audio_file: the
\* worker's `episode` object (ep = 0: None); result: what the engine returned;
\* upload: how upload_file ended in this invocation; found: what
\* final_audio_path.exists() answered
IdleWorker == [pc |-> "idle", job |-> 0, ep |-> 0, command |-> None, audio_file |-> None,
               result |-> "none", upload |-> "none", found |-> FALSE]

\* no helper has been called on its own
NoCall == [a |-> <<>>, b |-> <<>>, ka |-> None, kb |-> None]

InitWith(sc, envs) ==
    /\ scope = sc
    /\ env \in envs
    /\ client = [worker |-> FALSE, api |-> FALSE]
    /\ episodes = <<>>
    /\ jobs = <<>>
    /\ workers = [w \in 1..sc.pool |-> IdleWorker]
    /\ files = {}
    /\ objects = {}
    /\ uploaded = {}
    /\ handles = [worker |-> 0, api |-> 0]
    /\ temps = {}
    /\ serving = {}
    /\ pure = NoCall
    /\ resp = NoResp
    /\ caller = ""
    /\ conn = <<>>

Live(e) == e \in 1..Len(episodes) /\ ~episodes[e].deleted

\* ------------------------------------------------------------------ submit
\* JobSubmitter.submit: persist the pending episode, then hand the job to the
\* executor; the job id is not attached to the episode here.
Submit(name, u) ==
    /\ Len(episodes) < scope.episodes
    /\ Len(jobs) < scope.jobs
    /\ episodes' = Append(episodes, [name |-> name, owner |-> UserId(u), command |-> None,
                                     audio_file |-> None, deleted |-> FALSE])
    /\ jobs' = Append(jobs, [name |-> name, user_id |-> UserId(u), status |-> "new", attempts |-> 0,
                             target |-> Len(episodes) + 1])
    /\ resp' = NoResp
    /\ UNCHANGED <<scope, caller, conn, pure, temps, serving, handles, uploaded, env, client, workers, files, objects>>

\* A generate_podcast command handed to the executor directly (out of band):
\* no episode is pre-created, and the input may carry no user_id.
SubmitOutOfBand(name, user_id) ==
    /\ Len(jobs) < scope.jobs
    /\ jobs' = Append(jobs, [name |-> name, user_id |-> user_id, status |-> "new", attempts |-> 0,
                             target |-> 0])
    /\ resp' = NoResp
    /\ UNCHANGED <<scope, caller, conn, pure, temps, serving, handles, uploaded, env, client, episodes, workers, files, objects>>

\* ------------------------------------------------------------------ worker
\* The executor starts an invocation of a submitted job; a job may be invoked
\* again (retry), also while another invocation of it is still running.
StartWorker(w, j) ==
    /\ workers[w].pc = "idle"
    /\ j \in 1..Len(jobs)
    /\ jobs[j].attempts < MaxAttempts
    /\ workers' = [workers EXCEPT ![w] = [IdleWorker EXCEPT !.pc = "profiles", !.job = j]]
    /\ jobs' = [jobs EXCEPT ![j] = [@ EXCEPT !.status = "running", !.attempts = @ + 1]]
    /\ resp' = NoResp
    /\ UNCHANGED <<scope, caller, conn, pure, temps, serving, handles, uploaded, env, client, episodes, files, objects>>

\* what the database can do per call: answer, or raise
DbOutcomes == IF scope.faults THEN BOOLEAN ELSE {TRUE}

\* what loading the profiles can do: find both, miss one, or fail on the database
ProfileOutcomes == IF scope.faults THEN {"ok", "ValueError", "RuntimeError"} ELSE {"ok"}

ExceptionClasses == {"ValueError", "RuntimeError", "EngineError", "InvalidJsonOutput",
                     "S3StorageError", "S3UploadFailedError", "ClientBuildError"}

\* a boundary that handles only the error the worker raises itself
WorkerCatchesValueError(exc) == exc = "ValueError"

\* `except Exception` at the worker's boundary
WorkerCatches(exc) == exc \in ExceptionClasses

\* the invocation goes on to its next stage
Continue(w, wk) ==
    /\ workers' = [workers EXCEPT ![w] = wk]
    /\ resp' = NoResp
    /\ UNCHANGED jobs

\* the invocation returns `out` to the executor, which marks the command completed
Return(w, out) ==
    /\ workers' = [workers EXCEPT ![w] = IdleWorker]
    /\ jobs' = [jobs EXCEPT ![workers[w].job].status = "completed"]
    /\ resp' = out

\* a report that carries the error message and success = True
FailureOutputAsSuccess(wk, exc) ==
    [NoResp EXCEPT !.op = "worker", !.job = wk.job, !.id = wk.ep, !.success = TRUE,
                   !.error = exc, !.upload = wk.upload, !.found = wk.found]

\* PodcastGenerationOutput(success=False, ..., error_message=...)
FailureOutput(wk, exc) ==
    [NoResp EXCEPT !.op = "worker", !.job = wk.job, !.id = wk.ep, !.success = FALSE,
                   !.error = exc, !.upload = wk.upload, !.found = wk.found]

\* a report after the final save that says success = False
SuccessOutputAsFailure(wk) ==
    [NoResp EXCEPT !.op = "worker", !.job = wk.job, !.id = wk.ep, !.success = FALSE,
                   !.error = "RuntimeError", !.upload = wk.upload, !.found = wk.found]

\* PodcastGenerationOutput(success=True, episode_id=..., audio_file_path=...)
SuccessOutput(wk) ==
    [NoResp EXCEPT !.op = "worker", !.job = wk.job, !.id = wk.ep, !.success = TRUE,
                   !.audio = wk.audio_file, !.upload = wk.upload, !.found = wk.found]

\* an exception that is logged where it is raised, the run going on to persist
\* what it has
RaiseResumes(w, exc) ==
    Continue(w, [workers[w] EXCEPT !.pc = "save"])

\* an exception raised in the body of the worker's try block
Raise(w, exc) ==
    IF WorkerCatches(exc)
    THEN Return(w, FailureOutput(workers[w], exc))
    ELSE /\ workers' = [workers EXCEPT ![w] = IdleWorker]
         /\ jobs' = [jobs EXCEPT ![workers[w].job].status = "failed"]
         /\ resp' = [NoResp EXCEPT !.op = "escaped", !.job = workers[w].job, !.error = exc]

\* 1. load the episode and speaker profiles
LoadProfiles(w) ==
    /\ workers[w].pc = "profiles"
    /\ \E outcome \in ProfileOutcomes :
        IF outcome = "ok"
        THEN Continue(w, [workers[w] EXCEPT !.pc = "lookup"])
        ELSE Raise(w, outcome)
    /\ UNCHANGED <<scope, caller, conn, pure, temps, serving, handles, uploaded, env, client, episodes, files, objects>>

\* SELECT * FROM episode WHERE name = $name
MatchingByName(name, owner) ==
    {e \in 1..Len(episodes) : Live(e) /\ episodes[e].name = name}

\* SELECT * FROM episode WHERE name = $name AND owner = $owner
Matching(name, owner) ==
    {e \in 1..Len(episodes) : Live(e) /\ episodes[e].name = name /\ episodes[e].owner = owner}

\* ... ORDER BY created DESC LIMIT 1 (0: no row)
QueryLatest(name, owner) ==
    IF Matching(name, owner) = {} THEN 0
    ELSE CHOOSE e \in Matching(name, owner) : \A f \in Matching(name, owner) : f <= e

\* `if input_data.execution_context and not episode.command`
ShouldAttach(command) == command = None

\* 2. find the existing episode by (name, owner); a failing query is logged
\* and leaves `episode` None
Lookup(w) ==
    LET job == jobs[workers[w].job]
        found == QueryLatest(job.name, job.user_id)
    IN
    /\ workers[w].pc = "lookup"
    /\ \/ /\ job.user_id = None
          /\ Continue(w, [workers[w] EXCEPT !.pc = "fallback"])
       \/ /\ job.user_id # None
          /\ \E query_ok \in DbOutcomes :
                IF query_ok /\ found # 0
                THEN IF ShouldAttach(episodes[found].command)
                     THEN Continue(w, [workers[w] EXCEPT !.pc = "attach", !.ep = found,
                                            !.command = CommandId(workers[w].job)])
                     ELSE Continue(w, [workers[w] EXCEPT !.pc = "engine", !.ep = found,
                                            !.command = episodes[found].command])
                ELSE Continue(w, [workers[w] EXCEPT !.pc = "fallback"])
    /\ UNCHANGED <<scope, caller, conn, pure, temps, serving, handles, uploaded, env, client, episodes, files, objects>>

\* ObjectModel.save of an existing record: UPDATE <id> MERGE $data, with the
\* fields of the caller's copy that are set
SaveMerge(rec, local) ==
    [rec EXCEPT !.command = IF local.command # None THEN local.command ELSE @,
                !.audio_file = IF local.audio_file # None THEN local.audio_file ELSE @]

\* episode.save() after setting episode.command (any exception is swallowed
\* by the handler at line 131; the run goes on with the episode it found)
Attach(w) ==
    /\ workers[w].pc = "attach"
    /\ \E db_ok \in DbOutcomes :
        episodes' = IF db_ok /\ Live(workers[w].ep)
                    THEN [episodes EXCEPT ![workers[w].ep] = SaveMerge(@, workers[w])]
                    ELSE episodes
    /\ Continue(w, [workers[w] EXCEPT !.pc = "engine"])
    /\ UNCHANGED <<scope, caller, conn, pure, temps, serving, handles, uploaded, env, client, files, objects>>

\* fallback: create the episode, with the command reference
Fallback(w) ==
    LET job == jobs[workers[w].job] IN
    /\ workers[w].pc = "fallback"
    /\ \E db_ok \in DbOutcomes :
        IF db_ok
        THEN /\ Len(episodes) < scope.episodes
             /\ episodes' = Append(episodes, [name |-> job.name, owner |-> job.user_id,
                                              command |-> CommandId(workers[w].job),
                                              audio_file |-> None, deleted |-> FALSE])
             /\ Continue(w, [workers[w] EXCEPT !.pc = "engine", !.ep = Len(episodes) + 1,
                                               !.command = CommandId(workers[w].job)])
        ELSE /\ Raise(w, "RuntimeError")
             /\ UNCHANGED episodes
    /\ UNCHANGED <<scope, caller, conn, pure, temps, serving, handles, uploaded, env, client, files, objects>>

\* what create_podcast can do: raise; write the audio file at the fixed place
\* and return a result; return a result naming another final file without
\* writing the fixed place; return nothing usable and write nothing
EngineOutcomes ==
    IF scope.faults THEN {"EngineError", "InvalidJsonOutput", "file", "override", "nothing"}
                    ELSE {"file"}

OverridePath == <<"out", "/", "custom.mp3">>

\* 3. configure and run the synthesis engine in the episode's output directory
Engine(w) ==
    LET job == jobs[workers[w].job] IN
    /\ workers[w].pc = "engine"
    /\ \E outcome \in EngineOutcomes :
        CASE outcome = "file" ->
                /\ files' = files \cup {Resolve(FinalAudioPath(job.name))}
                /\ Continue(w, [workers[w] EXCEPT !.pc = "place", !.result = "plain"])
          [] outcome = "override" ->
                /\ Continue(w, [workers[w] EXCEPT !.pc = "place", !.result = "override"])
                /\ UNCHANGED files
          [] outcome = "nothing" ->
                /\ Continue(w, [workers[w] EXCEPT !.pc = "place", !.result = "none"])
                /\ UNCHANGED files
          [] OTHER ->
                /\ Raise(w, outcome)
                /\ UNCHANGED files
    /\ UNCHANGED <<scope, caller, conn, pure, temps, serving, handles, uploaded, env, client, episodes, objects>>

\* what client.upload_file can do: succeed; raise a BotoCoreError (no route to
\* the endpoint) or a ClientError; raise boto3's S3UploadFailedError, which is
\* neither (the transfer manager's report of a PutObject the service rejected)
TransferOutcomes == {"ok", "BotoCoreError", "ClientError", "S3UploadFailedError"}

\* `except (BotoCoreError, ClientError)` in upload_file
UploadCatches(exc) == exc \in {"BotoCoreError", "ClientError"}

\* what upload_file does: return, raise S3StorageError from what it caught, or
\* let the transfer's exception through
UploadOutcomes ==
    IF scope.faults
    THEN {IF UploadCatches(o) THEN "S3StorageError" ELSE o : o \in TransferOutcomes}
    ELSE {"ok"}

\* _create_s3_client builds the client, or raises
ClientBuilds == IF scope.faults THEN BOOLEAN ELSE {TRUE}

\* Path.unlink removes the file, or raises OSError
Unlinks == IF scope.faults THEN BOOLEAN ELSE {TRUE}

\* `except S3StorageError` around upload_file in the worker
PlaceCatches(exc) == exc = "S3StorageError"

\* str(final_audio_path), without resolve()
LocalRefUnresolved(name) == FinalAudioPath(name)

\* str(final_audio_path.resolve())
LocalRef(name) == Resolve(FinalAudioPath(name))

\* 4. place the artifact: S3 when configured, else the local disk
Place(w) ==
    LET job == jobs[workers[w].job]
        wk == workers[w]
        path == Resolve(FinalAudioPath(job.name))
        key == BuildEpisodeAssetKey(job.user_id, EpisodeId(wk.ep), Filename(job.name))
        next(audio, up) == [wk EXCEPT !.pc = "save", !.audio_file = audio, !.upload = up,
                                      !.result = "none", !.found = path \in files]
    IN
    /\ wk.pc = "place"
    /\ \/ \* the file is there and S3 is configured: upload_file
          /\ path \in files
          /\ IsS3Configured(env)
          /\ \E built \in ClientBuilds, outcome \in UploadOutcomes, unlinked \in Unlinks :
                IF ~client.worker /\ ~built
                THEN \* _client() raises before the transfer starts
                     /\ Raise(w, "ClientBuildError")
                     /\ UNCHANGED <<client, handles, files, objects, uploaded>>
                ELSE /\ client' = [client EXCEPT !.worker = TRUE]
                     /\ handles' = IF client.worker THEN handles
                                   ELSE [handles EXCEPT !.worker = @ + 1]
                     /\ IF outcome = "ok"
                        THEN /\ objects' = objects \cup {[bucket |-> UploadBucket(env), key |-> key]}
                             /\ uploaded' = uploaded \cup {[url |-> UploadUrl(env, key), key |-> key]}
                             /\ files' = IF unlinked THEN files \ {path} ELSE files
                             /\ Continue(w, next(UploadUrl(env, key), "ok"))
                        ELSE /\ UNCHANGED <<files, objects, uploaded>>
                             /\ IF PlaceCatches(outcome)
                                THEN Continue(w, next(LocalRef(job.name), outcome))
                                ELSE Raise(w, outcome)
       \/ \* the file is there and S3 is not configured
          /\ path \in files
          /\ ~IsS3Configured(env)
          /\ Continue(w, next(LocalRef(job.name), "none"))
          /\ UNCHANGED <<client, handles, files, objects, uploaded>>
       \/ \* the file is not there
          /\ path \notin files
          /\ Continue(w, next(IF wk.result = "override" THEN OverridePath
                                                        ELSE LocalRef(job.name), "none"))
          /\ UNCHANGED <<client, handles, files, objects, uploaded>>
    /\ UNCHANGED <<scope, caller, conn, pure, temps, serving, env, episodes>>

\* 5./6. save the episode and return the result
Save(w) ==
    LET wk == workers[w] IN
    /\ wk.pc = "save"
    /\ \E db_ok \in DbOutcomes :
        IF db_ok /\ Live(wk.ep)
        THEN /\ episodes' = [episodes EXCEPT ![wk.ep] = SaveMerge(@, wk)]
             /\ Return(w, SuccessOutput(wk))
        ELSE /\ Raise(w, "RuntimeError")
             /\ UNCHANGED episodes
    /\ UNCHANGED <<scope, caller, conn, pure, temps, serving, handles, uploaded, env, client, files, objects>>

\* ------------------------------------------------------------------ status
JobOf(command) == CHOOSE j \in 1..Len(jobs) : CommandId(j) = command

\* episode.get_job_status(): the state the executor reports for the command
ExecutorStatus(command) == jobs[JobOf(command)].status

\* the listing with `except Exception: pass`: a failed query leaves job_status None
ListJobStatusUnset(ep, query_ok) ==
    IF ep.command # None
    THEN IF query_ok THEN ExecutorStatus(ep.command) ELSE NoStatus
    ELSE IF ep.audio_file # None THEN "completed" ELSE "pending"

\* list_podcast_episodes, lines 116-129
ListJobStatus(ep, query_ok) ==
    IF ep.command # None
    THEN IF query_ok THEN ExecutorStatus(ep.command) ELSE "unknown"
    ELSE IF ep.audio_file # None THEN "completed" ELSE "pending"

\* get_podcast_episode, lines 175-184
GetJobStatus(ep, query_ok) ==
    IF ep.command # None
    THEN IF query_ok THEN ExecutorStatus(ep.command) ELSE "unknown"
    ELSE IF ep.audio_file # None THEN "completed" ELSE "unknown"

OwnedBy(u) == {e \in 1..Len(episodes) : Live(e) /\ episodes[e].owner = UserId(u)}

\* the executor queries that can fail: one per episode with a command
Queried(es) == IF scope.faults THEN {e \in es : episodes[e].command # None} ELSE {}

\* GET /podcasts/episodes
ListEpisodes(u) ==
    /\ OwnedBy(u) # {}
    /\ \E failing \in SUBSET Queried(OwnedBy(u)) :
        resp' = [NoResp EXCEPT !.op = "list", !.code = 200, !.user = u, !.failing = failing,
                    !.statuses = [e \in OwnedBy(u) |-> ListJobStatus(episodes[e], e \notin failing)]]
    /\ UNCHANGED <<scope, caller, conn, pure, temps, serving, handles, uploaded, env, client, episodes, jobs, workers, files, objects>>

\* GET /podcasts/episodes/{episode_id}
GetEpisode(e, u) ==
    /\ e \in 1..Len(episodes)
    /\ \E failing \in SUBSET Queried({e}) :
        resp' = IF ~Live(e)
                THEN [NoResp EXCEPT !.op = "get", !.id = e, !.code = 404]
                ELSE IF episodes[e].owner # None /\ episodes[e].owner # UserId(u)
                THEN \* the 403 is raised inside the try and comes out as a 404
                     [NoResp EXCEPT !.op = "get", !.id = e, !.code = 404]
                ELSE [NoResp EXCEPT !.op = "get", !.id = e, !.code = 200, !.failing = failing,
                                !.audio = episodes[e].audio_file,
                                !.job_status = GetJobStatus(episodes[e], e \notin failing)]
    /\ UNCHANGED <<scope, caller, conn, pure, temps, serving, handles, uploaded, env, client, episodes, jobs, workers, files, objects>>

\* ------------------------------------------------------------------ delete
\* what client.delete_object can do: succeed (also when the object is not
\* there), or raise a BotoCoreError / ClientError
DeleteOutcomes == IF scope.faults THEN {"ok", "ClientError"} ELSE {"ok"}

\* `except (BotoCoreError, ClientError)` in delete_object
DeleteObjectCatches(exc) == exc = "ClientError"

\* the row is gone: only its place in the creation order is kept
MarkDeleted(e) == [episodes EXCEPT ![e] = [name |-> @.name, owner |-> @.owner, command |-> None,
                                           audio_file |-> None, deleted |-> TRUE]]

\* DELETE /podcasts/episodes/{episode_id}
DeleteEpisode(e) ==
    LET ep == episodes[e]
        key == ParseS3Url(ep.audio_file)[2]
        ok(r) == [r EXCEPT !.op = "delete", !.id = e, !.code = 200, !.audio = ep.audio_file]
        failed(r, exc) == [r EXCEPT !.op = "delete", !.id = e, !.code = 500,
                                    !.audio = ep.audio_file, !.error = exc]
        \* await episode.delete(), then the success message
        finish(r) == \E db_ok \in DbOutcomes :
                        IF db_ok
                        THEN episodes' = MarkDeleted(e) /\ resp' = ok(r)
                        ELSE UNCHANGED episodes /\ resp' = failed(r, "RuntimeError")
    IN
    /\ e \in 1..Len(episodes)
    /\ \/ \* get_episode raises: there is no such episode
          /\ ~Live(e)
          /\ resp' = [NoResp EXCEPT !.op = "delete", !.id = e, !.code = 500, !.error = "NotFound"]
          /\ UNCHANGED <<client, handles, episodes, files, objects>>
       \/ \* no audio, or an s3:// reference without a key: nothing to clean up
          /\ Live(e)
          /\ \/ ep.audio_file = None
             \/ Startswith(ep.audio_file, S3Scheme) /\ key = None
          /\ finish(NoResp)
          /\ UNCHANGED <<client, handles, files, objects>>
       \/ \* an s3:// reference: delete_object(key)
          /\ Live(e)
          /\ ep.audio_file # None
          /\ Startswith(ep.audio_file, S3Scheme) /\ key # None
          /\ IF ~IsS3Configured(env)
             THEN /\ finish([NoResp EXCEPT !.s3_key = key])
                  /\ UNCHANGED <<client, handles, files, objects>>
             ELSE \E built \in ClientBuilds, outcome \in DeleteOutcomes :
                    IF ~client.api /\ ~built
                    THEN \* _client() raises, outside delete_object's try
                         /\ resp' = failed([NoResp EXCEPT !.s3_key = key], "ClientBuildError")
                         /\ UNCHANGED <<client, handles, episodes, files, objects>>
                    ELSE /\ client' = [client EXCEPT !.api = TRUE]
                         /\ handles' = IF client.api THEN handles ELSE [handles EXCEPT !.api = @ + 1]
                         /\ UNCHANGED files
                         /\ IF outcome = "ok"
                            THEN /\ objects' = objects \ {[bucket |-> GetBucketName(env), key |-> key]}
                                 /\ finish([NoResp EXCEPT !.s3_key = key, !.s3_called = TRUE])
                            ELSE /\ UNCHANGED objects
                                 /\ IF DeleteObjectCatches(outcome)
                                    THEN finish([NoResp EXCEPT !.s3_key = key, !.s3_called = TRUE])
                                    ELSE /\ resp' = failed([NoResp EXCEPT !.s3_key = key,
                                                                          !.s3_called = TRUE], outcome)
                                         /\ UNCHANGED episodes
       \/ \* a local reference: unlink the file if it is there
          /\ Live(e)
          /\ ep.audio_file # None
          /\ ~Startswith(ep.audio_file, S3Scheme)
          /\ \E unlinked \in Unlinks :
                files' = IF unlinked THEN files \ {ResolveAudioPath(ep.audio_file)} ELSE files
          /\ finish([NoResp EXCEPT !.fs_touched = TRUE])
          /\ UNCHANGED <<client, handles, objects>>
    /\ UNCHANGED <<scope, caller, conn, pure, temps, serving, uploaded, env, jobs, workers>>

\* ------------------------------------------------------------------ stream
\* what client.download_file can do when the object is there: write the file,
\* or raise
DownloadOutcomes == IF scope.faults THEN {"ok", "ClientError"} ELSE {"ok"}

\* tempfile.NamedTemporaryFile(delete=False): a file that is not on the disk yet
NewTemp == CHOOSE t \in 1..MaxTemps : t \notin temps /\ \A u \in 1..(t - 1) : u \in temps

\* GET /podcasts/episodes/{episode_id}/audio
StreamAudio(e) ==
    LET ep == episodes[e]
        key == ParseS3Url(ep.audio_file)[2]
        answer(code) == [NoResp EXCEPT !.op = "stream", !.id = e, !.code = code,
                                       !.audio = ep.audio_file]
    IN
    /\ e \in 1..Len(episodes)
    /\ \/ \* get_episode raises, there is no audio reference, or it has no key
          /\ \/ ~Live(e)
             \/ ep.audio_file = None
             \/ Startswith(ep.audio_file, S3Scheme) /\ key = None
          /\ resp' = answer(404)
          /\ UNCHANGED <<handles, temps, serving>>
       \/ \* an s3:// reference while S3 is not configured: the 500 raised in
          \* the try is wrapped into a 500
          /\ Live(e) /\ Startswith(ep.audio_file, S3Scheme) /\ key # None
          /\ ~IsS3Configured(env)
          /\ resp' = [answer(500) EXCEPT !.s3_key = key]
          /\ UNCHANGED <<handles, temps, serving>>
       \/ \* an s3:// reference: a client of its own, a temporary file, download_file
          /\ Live(e) /\ Startswith(ep.audio_file, S3Scheme) /\ key # None
          /\ IsS3Configured(env)
          /\ handles.api < MaxHandles
          /\ temps # 1..MaxTemps
          /\ \E built \in ClientBuilds, outcome \in DownloadOutcomes :
                IF ~built
                THEN \* boto3.client raises
                     /\ resp' = [answer(500) EXCEPT !.s3_key = key, !.error = "ClientBuildError"]
                     /\ UNCHANGED <<handles, temps, serving>>
                ELSE /\ handles' = [handles EXCEPT !.api = @ + 1]
                     /\ IF [bucket |-> StreamBucket(env), key |-> key] \in objects /\ outcome = "ok"
                        THEN \* FileResponse(temp_path), with no background task
                             /\ temps' = temps \cup {NewTemp}
                             /\ serving' = serving \cup {NewTemp}
                             /\ resp' = [answer(200) EXCEPT !.s3_key = key, !.s3_called = TRUE,
                                                            !.temp = NewTemp]
                        ELSE \* os.remove(temp_path), then the 500
                             /\ resp' = [answer(500) EXCEPT !.s3_key = key, !.s3_called = TRUE,
                                                            !.error = "ClientError"]
                             /\ UNCHANGED <<temps, serving>>
       \/ \* a local reference
          /\ Live(e) /\ ep.audio_file # None /\ ~Startswith(ep.audio_file, S3Scheme)
          /\ resp' = IF ResolveAudioPath(ep.audio_file) \in files
                     THEN [answer(200) EXCEPT !.fs_touched = TRUE]
                     ELSE answer(404)
          /\ UNCHANGED <<handles, temps, serving>>
    /\ UNCHANGED <<scope, caller, conn, pure, uploaded, env, client, episodes, jobs, workers, files, objects>>

\* the response that serves a temporary file ends: the body has been sent,
\* or the client has gone away
ResponseEnds(t) ==
    /\ t \in serving
    /\ serving' = serving \ {t}
    /\ resp' = NoResp
    /\ UNCHANGED <<scope, caller, conn, pure, temps, handles, uploaded, env, client, episodes, jobs, workers,
                   files, objects>>

\* ------------------------------------------- storage helpers on their own
\* the characters ids are made of, and the ids of up to MaxIdLen of them
KeyAlphabet == {"a", ":", " "}
Strs(n) == UNION {[1..k -> KeyAlphabet] : k \in 1..n}

\* the arguments of build_episode_asset_key: user_id is Optional[str]
OwnerIds == {None} \cup Strs(MaxIdLen)
EpisodeIds == {<<"e">>, <<"episode", ":", "e">>, <<"e", " ", "e">>}
Filenames == {<<"f", ".mp3">>, <<"f", ":", "g">>, <<"f", " ", "g">>, <<"f", "_", "g">>}
Triples == [user_id : OwnerIds, episode_id : EpisodeIds, filename : Filenames]

\* build_episode_asset_key applied to two argument triples
BuildKeys ==
    /\ pure.ka = None
    /\ pure' = [pure EXCEPT
                  !.ka = BuildEpisodeAssetKey(pure.a.user_id, pure.a.episode_id, pure.a.filename),
                  !.kb = BuildEpisodeAssetKey(pure.b.user_id, pure.b.episode_id, pure.b.filename)]
    /\ resp' = NoResp
    /\ UNCHANGED <<scope, caller, conn, temps, serving, handles, uploaded, env, client, episodes, jobs, workers,
                   files, objects>>

\* an environment variable is set, changed or removed while the process runs
SetEnv(e) ==
    /\ e \in ConfigEnvs
    /\ Cardinality({f \in DOMAIN env : e[f] # env[f]}) = 1
    /\ env' = e
    /\ resp' = NoResp
    /\ UNCHANGED <<scope, caller, conn, pure, temps, serving, handles, uploaded, client, episodes, jobs,
                   workers, files, objects>>

\* is_s3_configured()
CheckConfigured ==
    /\ resp' = [NoResp EXCEPT !.op = "configured", !.configured = IsS3Configured(env)]
    /\ UNCHANGED <<scope, caller, conn, pure, temps, serving, handles, uploaded, env, client, episodes, jobs,
                   workers, files, objects>>

\* the keys presigned urls are asked for
PresignKeys == {BuildEpisodeAssetKey(UserId("u1"), EpisodeId(1), Filename(<<"ep1">>))}

\* what client.generate_presigned_url can do: return the url, or raise
PresignOutcomes == IF scope.faults THEN {"ok", "ClientError"} ELSE {"ok"}

\* generate_presigned_url(key), in the API process
PresignedUrl(key) ==
    LET answer == [NoResp EXCEPT !.op = "presign", !.s3_key = key] IN
    /\ IF ~IsS3Configured(env)
       THEN /\ resp' = answer
            /\ UNCHANGED <<client, handles>>
       ELSE \E built \in ClientBuilds, outcome \in PresignOutcomes :
               IF ~client.api /\ ~built
               THEN \* _client() raises, outside the try
                    /\ resp' = [answer EXCEPT !.error = "ClientBuildError"]
                    /\ UNCHANGED <<client, handles>>
               ELSE /\ client' = [client EXCEPT !.api = TRUE]
                    /\ handles' = IF client.api THEN handles ELSE [handles EXCEPT !.api = @ + 1]
                    /\ resp' = [answer EXCEPT
                                  !.s3_called = TRUE,
                                  !.url = IF outcome = "ok"
                                          THEN <<"https", ":", "/", "/">> \o GetBucketName(env)
                                                   \o <<"/">> \o key \o <<"?", "X-Amz-Signature">>
                                          ELSE None]
    /\ UNCHANGED <<scope, caller, conn, pure, temps, serving, uploaded, env, episodes, jobs, workers, files,
                   objects>>

\* the keys files are uploaded under, and the strings parse_s3_url is given
UriKeys == {BuildEpisodeAssetKey(UserId("u1"), EpisodeId(1), Filename(<<"ep1">>)),
            BuildEpisodeAssetKey(None, EpisodeId(2), Filename(<<"ep1">>)),
            <<"k">>}
UriTexts == {<<"bucket", "/", "k">>, <<"https", ":", "/", "/", "bucket", "/", "k">>,
             S3Scheme \o <<"bucket">>, S3Scheme \o <<"bucket", "/">>,
             S3Scheme \o <<"bucket", "/", "k">>}

\* the configurations in which an upload goes through: a plain bucket or an
\* access-point ARN in S3_BUCKET_NAME, with or without an endpoint url
UriEnvs == {e \in ConfigEnvs : IsS3Configured(e) /\ e.bucket \in {PlainBucket, ArnBucket}}

\* upload_file(path, key) returns, and parse_s3_url is given what it returned
UploadThenParse ==
    /\ pure.url = None
    /\ pure' = [pure EXCEPT !.url = UploadUrl(env, pure.key),
                            !.parsed = ParseS3Url(UploadUrl(env, pure.key))]
    /\ resp' = NoResp
    /\ UNCHANGED <<scope, caller, conn, temps, serving, handles, uploaded, env, client, episodes, jobs, workers,
                   files, objects>>

\* parse_s3_url(text)
ParseText ==
    /\ pure.parsed_text = None
    /\ pure' = [pure EXCEPT !.parsed_text = ParseS3Url(pure.text)]
    /\ resp' = NoResp
    /\ UNCHANGED <<scope, caller, conn, temps, serving, handles, uploaded, env, client, episodes, jobs, workers,
                   files, objects>>

\* the Bucket argument of the three calls that reach the store
TargetBuckets ==
    /\ pure.buckets = None
    /\ pure' = [pure EXCEPT !.buckets = [upload |-> UploadBucket(env),
                                         stream |-> StreamBucket(env),
                                         delete |-> GetBucketName(env)]]
    /\ resp' = NoResp
    /\ UNCHANGED <<scope, caller, conn, temps, serving, handles, uploaded, env, client, episodes, jobs, workers,
                   files, objects>>

\* ------------------------------------------- the worker's failure report
\* the pieces profile names are made of: a name is any text the caller sends
NameAlphabet == {"news", "Expecting value", "Invalid json output"}
ProfileNames == UNION {[1..k -> NameAlphabet] : k \in 1..MaxNameLen}

\* what reaches `except Exception as e`: the stage that raised, what it was
\* raised for, and the name the message quotes
Failures ==
    [stage : {"profiles"}, kind : {"episode", "speaker"}, name : ProfileNames]
      \cup [stage : {"engine"}, kind : {"invalid_json", "empty", "other"}, name : {None}]
      \cup [stage : {"save"}, kind : {"update"}, name : {None}]

\* the engine returned an empty or unparsable result
IsUnparsableResult(f) == f.stage = "engine" /\ f.kind \in {"invalid_json", "empty"}

\* str(e)
Message(f) ==
    CASE f.stage = "profiles" /\ f.kind = "episode" ->
            <<"Episode profile '">> \o f.name \o <<"' not found">>
      [] f.stage = "profiles" /\ f.kind = "speaker" ->
            <<"Speaker profile '">> \o f.name \o <<"' not found">>
      [] f.stage = "engine" /\ f.kind = "invalid_json" ->
            <<"Invalid json output", ": ", "<think>">>
      [] f.stage = "engine" /\ f.kind = "empty" ->
            <<"Expecting value", ": ", "line 1 column 1 (char 0)">>
      [] f.stage = "engine" /\ f.kind = "other" ->
            <<"No audio clips were generated">>
      [] f.stage = "save" ->
            <<"Failed to update record", ": ", "connection closed">>

Hint == <<"NOTE: This error commonly occurs with GPT-5 models that use extended thinking.">>

\* `"Invalid json output" in error_msg or "Expecting value" in error_msg`
NeedsHint(error_msg) ==
    Contains(error_msg, "Invalid json output") \/ Contains(error_msg, "Expecting value")

\* the handler at the worker's boundary builds error_message
HandleException ==
    /\ pure.error_message = None
    /\ pure' = [pure EXCEPT !.error_message =
                    IF NeedsHint(Message(pure.failure)) THEN Message(pure.failure) \o Hint
                                                        ELSE Message(pure.failure)]
    /\ resp' = [NoResp EXCEPT !.op = "worker", !.success = FALSE]
    /\ UNCHANGED <<scope, caller, conn, temps, serving, handles, uploaded, env, client, episodes, jobs, workers,
                   files, objects>>

\* ---------------------------------------------------------- db_connection
max_retries == 3
retry_delay == 2

\* pc: where the coroutine is in the context manager; attempt: the loop
\* variable; delay: the local retry_delay; db: None, or the client object
\* (connected or not); made / failures / slept / yielded / closed / body:
\* history of the connection attempts, the sleeps, the yield, the close and
\* how the caller's body ended
Outside == [pc |-> "outside", attempt |-> 0, delay |-> 0, db |-> "none", made |-> 0,
            failures |-> 0, slept |-> <<>>, yielded |-> FALSE, closed |-> FALSE,
            body |-> "none"]

Callers == 1..MaxCallers

\* a retry delay that stays what it was
NextDelayConstant(d) == d

\* retry_delay *= 2
NextDelay(d) == d * 2

\* `async with db_connection()`: the locals before the loop
EnterDb(p) ==
    /\ conn[p].pc = "outside"
    /\ conn' = [conn EXCEPT ![p] = [Outside EXCEPT !.pc = "connecting", !.delay = retry_delay]]
    /\ resp' = NoResp
    /\ UNCHANGED <<scope, caller, pure, temps, serving, handles, uploaded, env, client, episodes,
                   jobs, workers, files, objects>>

\* one pass of the loop: AsyncSurreal(url), signin and use; on an exception
\* sleep and double the delay, or re-raise when it was the last attempt
Connect(p) ==
    LET c == conn[p] IN
    /\ c.pc = "connecting"
    /\ c.attempt < max_retries
    /\ \E outcome \in {"connected", "no_client", "refused"} :
          \* no_client: AsyncSurreal(url) raises and db keeps what it held;
          \* refused: signin or use raises on the new client
          LET db == IF outcome = "no_client" THEN c.db ELSE "unconnected" IN
          conn' = [conn EXCEPT ![p] =
             IF outcome = "connected"
             THEN [c EXCEPT !.pc = "body", !.db = "connected", !.made = @ + 1,
                            !.yielded = TRUE]
             ELSE IF c.attempt < max_retries - 1
             THEN [c EXCEPT !.attempt = @ + 1, !.db = db, !.made = @ + 1,
                            !.failures = @ + 1, !.slept = Append(@, c.delay),
                            !.delay = NextDelay(@)]
             ELSE [c EXCEPT !.pc = "raised", !.db = db, !.made = @ + 1,
                            !.failures = @ + 1]]
    /\ resp' = NoResp
    /\ UNCHANGED <<scope, caller, pure, temps, serving, handles, uploaded, env, client, episodes,
                   jobs, workers, files, objects>>

\* the caller's body runs on the yielded connection and returns or raises;
\* `finally: if db: await db.close()`
ExitDb(p) ==
    LET c == conn[p] IN
    /\ c.pc = "body"
    /\ \E ended \in {"returned", "raised"} :
          conn' = [conn EXCEPT ![p] = [c EXCEPT !.pc = "exited", !.body = ended,
                                                !.closed = c.db # "none",
                                                !.db = IF c.db # "none" THEN "closed" ELSE @]]
    /\ resp' = NoResp
    /\ UNCHANGED <<scope, caller, pure, temps, serving, handles, uploaded, env, client, episodes,
                   jobs, workers, files, objects>>

\* ------------------------------------------------------------- the caller
\* the router's dependency get_current_active_user resolves the user of the
\* request that arrives; the handler of that request runs next
Authenticate(u) ==
    /\ u \in scope.users
    /\ caller' = u
    /\ resp' = NoResp
    /\ UNCHANGED <<scope, conn, pure, temps, serving, handles, uploaded, env, client, episodes,
                   jobs, workers, files, objects>>

\* ------------------------------------------------------------ specification
\* an executor that runs one invocation at a time, and the whole API
Init ==
    InitWith([pool |-> 1, jobs |-> SeqJobs, episodes |-> MaxEpisodes, users |-> Users,
              faults |-> TRUE], Envs)

Next ==
    \/ \E name \in Names, u \in scope.users : Submit(name, u)
    \/ \E name \in Names, uid \in {None} \cup {UserId(u) : u \in scope.users} : SubmitOutOfBand(name, uid)
    \/ \E w \in Workers, j \in 1..Len(jobs) : StartWorker(w, j)
    \/ \E w \in Workers : LoadProfiles(w)
    \/ \E w \in Workers : Lookup(w)
    \/ \E w \in Workers : Attach(w)
    \/ \E w \in Workers : Fallback(w)
    \/ \E w \in Workers : Engine(w)
    \/ \E w \in Workers : Place(w)
    \/ \E w \in Workers : Save(w)
    \/ \E u \in scope.users : ListEpisodes(u)
    \/ \E e \in 1..Len(episodes), u \in scope.users : GetEpisode(e, u)
    \/ \E e \in 1..Len(episodes) : DeleteEpisode(e)

Spec == Init /\ [][Next]_vars

\* an executor that runs invocations concurrently: submissions and workers
InitConcurrent ==
    InitWith([pool |-> MaxWorkers, jobs |-> MaxJobs, episodes |-> MaxEpisodes, users |-> {"u1"},
              faults |-> TRUE], {EnvPlain})

NextConcurrent ==
    \/ \E name \in Names, u \in scope.users : Submit(name, u)
    \/ \E w \in Workers, j \in 1..Len(jobs) : StartWorker(w, j)
    \/ \E w \in Workers : LoadProfiles(w)
    \/ \E w \in Workers : Lookup(w)
    \/ \E w \in Workers : Attach(w)
    \/ \E w \in Workers : Fallback(w)
    \/ \E w \in Workers : Engine(w)
    \/ \E w \in Workers : Place(w)
    \/ \E w \in Workers : Save(w)

SpecConcurrent == InitConcurrent /\ [][NextConcurrent]_vars

\* the end-to-end scenario: no collaborator fails, the object store is not
\* configured, the engine writes the file, nobody deletes an episode
InitEndToEnd ==
    InitWith([pool |-> 1, jobs |-> MaxJobs, episodes |-> MaxEpisodes, users |-> Users,
              faults |-> FALSE], {EnvUnset})

NextEndToEnd ==
    \/ \E name \in Names, u \in scope.users : Submit(name, u)
    \/ \E name \in Names, uid \in {None} \cup {UserId(u) : u \in scope.users} : SubmitOutOfBand(name, uid)
    \/ \E w \in Workers, j \in 1..Len(jobs) : StartWorker(w, j)
    \/ \E w \in Workers : LoadProfiles(w)
    \/ \E w \in Workers : Lookup(w)
    \/ \E w \in Workers : Attach(w)
    \/ \E w \in Workers : Fallback(w)
    \/ \E w \in Workers : Engine(w)
    \/ \E w \in Workers : Place(w)
    \/ \E w \in Workers : Save(w)
    \/ \E u \in scope.users : ListEpisodes(u)
    \/ \E e \in 1..Len(episodes), u \in scope.users : GetEpisode(e, u)

SpecEndToEnd == InitEndToEnd /\ [][NextEndToEnd]_vars

\* the audio endpoint beside submission, the worker and deletion
InitStream ==
    InitWith([pool |-> 1, jobs |-> SeqJobs, episodes |-> MaxEpisodes, users |-> {"u1"},
              faults |-> TRUE], Envs)

NextStream ==
    \/ \E name \in Names, u \in scope.users : Submit(name, u)
    \/ \E w \in Workers, j \in 1..Len(jobs) : StartWorker(w, j)
    \/ \E w \in Workers : LoadProfiles(w)
    \/ \E w \in Workers : Lookup(w)
    \/ \E w \in Workers : Attach(w)
    \/ \E w \in Workers : Fallback(w)
    \/ \E w \in Workers : Engine(w)
    \/ \E w \in Workers : Place(w)
    \/ \E w \in Workers : Save(w)
    \/ \E e \in 1..Len(episodes) : StreamAudio(e)
    \/ \E t \in 1..MaxTemps : ResponseEnds(t)
    \/ \E e \in 1..Len(episodes) : DeleteEpisode(e)

SpecStream == InitStream /\ [][NextStream]_vars

\* build_episode_asset_key called on two triples of arguments
InitKeys ==
    /\ scope = [pool |-> 1, jobs |-> 0, episodes |-> 0, users |-> {}, faults |-> FALSE]
    /\ env = EnvUnset
    /\ client = [worker |-> FALSE, api |-> FALSE]
    /\ episodes = <<>>
    /\ jobs = <<>>
    /\ workers = [w \in 1..1 |-> IdleWorker]
    /\ files = {}
    /\ objects = {}
    /\ uploaded = {}
    /\ handles = [worker |-> 0, api |-> 0]
    /\ temps = {}
    /\ serving = {}
    /\ pure \in [a : Triples, b : Triples, ka : {None}, kb : {None}]
    /\ resp = NoResp
    /\ caller = ""
    /\ conn = <<>>

NextKeys == BuildKeys

SpecKeys == InitKeys /\ [][NextKeys]_vars

\* the configuration helpers in a long-lived process whose environment changes
InitConfig ==
    InitWith([pool |-> 1, jobs |-> 0, episodes |-> 0, users |-> {}, faults |-> TRUE], ConfigEnvs)

NextConfig ==
    \/ \E e \in ConfigEnvs : SetEnv(e)
    \/ CheckConfigured
    \/ \E key \in PresignKeys : PresignedUrl(key)

SpecConfig == InitConfig /\ [][NextConfig]_vars

\* both tiers in the life of one deployment: no collaborator fails, the secret
\* key is removed from the environment and put back, episodes are deleted
InitTiers ==
    InitWith([pool |-> 1, jobs |-> MaxJobs, episodes |-> MaxEpisodes, users |-> Users,
              faults |-> FALSE], {EnvPlain})

NextTiers ==
    \/ \E name \in Names, u \in scope.users : Submit(name, u)
    \/ \E w \in Workers, j \in 1..Len(jobs) : StartWorker(w, j)
    \/ \E w \in Workers : LoadProfiles(w)
    \/ \E w \in Workers : Lookup(w)
    \/ \E w \in Workers : Attach(w)
    \/ \E w \in Workers : Fallback(w)
    \/ \E w \in Workers : Engine(w)
    \/ \E w \in Workers : Place(w)
    \/ \E w \in Workers : Save(w)
    \/ \E e \in {EnvPlain, EnvNoSecret} : SetEnv(e)
    \/ \E e \in 1..Len(episodes) : DeleteEpisode(e)

SpecTiers == InitTiers /\ [][NextTiers]_vars

\* the canonical identifier and the bucket of each call, per configuration
InitUris ==
    /\ scope = [pool |-> 1, jobs |-> 0, episodes |-> 0, users |-> {}, faults |-> FALSE]
    /\ env \in UriEnvs
    /\ client = [worker |-> FALSE, api |-> FALSE]
    /\ episodes = <<>>
    /\ jobs = <<>>
    /\ workers = [w \in 1..1 |-> IdleWorker]
    /\ files = {}
    /\ objects = {}
    /\ uploaded = {}
    /\ handles = [worker |-> 0, api |-> 0]
    /\ temps = {}
    /\ serving = {}
    /\ pure \in [key : UriKeys, text : UriTexts, url : {None}, parsed : {None},
                  parsed_text : {None}, buckets : {None}]
    /\ resp = NoResp
    /\ caller = ""
    /\ conn = <<>>

NextUris ==
    \/ UploadThenParse
    \/ ParseText
    \/ TargetBuckets

SpecUris == InitUris /\ [][NextUris]_vars

\* the worker's exception handler on every failure that can reach it
InitErrors ==
    /\ scope = [pool |-> 1, jobs |-> 0, episodes |-> 0, users |-> {}, faults |-> TRUE]
    /\ env = EnvUnset
    /\ client = [worker |-> FALSE, api |-> FALSE]
    /\ episodes = <<>>
    /\ jobs = <<>>
    /\ workers = [w \in 1..1 |-> IdleWorker]
    /\ files = {}
    /\ objects = {}
    /\ uploaded = {}
    /\ handles = [worker |-> 0, api |-> 0]
    /\ temps = {}
    /\ serving = {}
    /\ pure \in [failure : Failures, error_message : {None}]
    /\ resp = NoResp
    /\ caller = ""
    /\ conn = <<>>

NextErrors == HandleException

SpecErrors == InitErrors /\ [][NextErrors]_vars

\* the episode endpoints called by authenticated users: no collaborator
\* fails, the object store is not configured
InitAccess ==
    InitWith([pool |-> 1, jobs |-> MaxJobs, episodes |-> MaxEpisodes, users |-> Users,
              faults |-> FALSE], {EnvUnset})

NextAccess ==
    \/ \E name \in Names, u \in scope.users : Submit(name, u)
    \/ \E w \in Workers, j \in 1..Len(jobs) : StartWorker(w, j)
    \/ \E w \in Workers : LoadProfiles(w)
    \/ \E w \in Workers : Lookup(w)
    \/ \E w \in Workers : Attach(w)
    \/ \E w \in Workers : Fallback(w)
    \/ \E w \in Workers : Engine(w)
    \/ \E w \in Workers : Place(w)
    \/ \E w \in Workers : Save(w)
    \/ \E u \in scope.users : Authenticate(u)
    \/ \E e \in 1..Len(episodes) : caller # "" /\ GetEpisode(e, caller)
    \/ \E e \in 1..Len(episodes) : caller # "" /\ StreamAudio(e)
    \/ \E e \in 1..Len(episodes) : caller # "" /\ DeleteEpisode(e)

SpecAccess == InitAccess /\ [][NextAccess]_vars

\* coroutines that open database connections side by side
InitDb ==
    /\ scope = [pool |-> 1, jobs |-> 0, episodes |-> 0, users |-> {}, faults |-> TRUE]
    /\ env = EnvUnset
    /\ client = [worker |-> FALSE, api |-> FALSE]
    /\ episodes = <<>>
    /\ jobs = <<>>
    /\ workers = [w \in 1..1 |-> IdleWorker]
    /\ files = {}
    /\ objects = {}
    /\ uploaded = {}
    /\ handles = [worker |-> 0, api |-> 0]
    /\ temps = {}
    /\ serving = {}
    /\ pure = NoCall
    /\ resp = NoResp
    /\ caller = ""
    /\ conn = [p \in Callers |-> Outside]

NextDb ==
    \/ \E p \in Callers : EnterDb(p)
    \/ \E p \in Callers : Connect(p)
    \/ \E p \in Callers : ExitDb(p)

SpecDb == InitDb /\ [][NextDb]_vars

\* ------------------------------------------------------------------ claims
\* C1: once the job reference (command) of an episode is set, no step of any
\* interleaving of worker invocations replaces it by another value
C1_JobRefSetAtMostOnce ==
    [][\A e \in 1..Len(episodes) :
          (episodes[e].command # None /\ ~episodes'[e].deleted)
              => episodes'[e].command = episodes[e].command]_vars

\* C2: once the audio reference (audio_file) of an episode is set, no later
\* step changes it; a retry or re-generation does not rewrite it
C2_AudioRefSetOnce ==
    [][\A e \in 1..Len(episodes) :
          (episodes[e].audio_file # None /\ ~episodes'[e].deleted)
              => episodes'[e].audio_file = episodes[e].audio_file]_vars

\* C3: every worker invocation ends by returning a result with a success
\* flag: no exception leaves the worker and no command ends as failed in the
\* executor, a failed run carries success = false and an error message, and
\* a successful one no error
C3_WorkerAlwaysReturnsResult ==
    /\ resp.op # "escaped"
    /\ \A j \in 1..Len(jobs) : jobs[j].status # "failed"
    /\ resp.op = "worker" => (resp.success <=> resp.error = NoError)

\* a run whose upload was rejected by the store has returned success = false
C3_FailedRunReturned ==
    resp.op = "worker" /\ ~resp.success /\ resp.error = "S3UploadFailedError"

\* C4: when S3 is configured, the engine's file is there and the upload
\* fails, the worker goes on to save the resolved absolute local path as the
\* audio reference and leaves the local file in place, and the run then
\* succeeds (unless the final save fails) with that path recorded
C4_UploadFailureFallsBack ==
    /\ [](LET local == Resolve(FinalAudioPath(jobs[resp.job].name)) IN
          (resp.op = "worker" /\ resp.upload = "S3StorageError" /\ resp.error # "RuntimeError")
              => (resp.success /\ resp.audio = local /\ episodes[resp.id].audio_file = local))
    /\ [][\A w \in Workers :
            LET local == Resolve(FinalAudioPath(jobs[workers[w].job].name)) IN
            (/\ workers[w].pc = "place" /\ workers'[w] # workers[w]
             /\ local \in files /\ IsS3Configured(env)
             /\ workers'[w].upload # "ok")
                => /\ workers'[w].pc = "save"
                   /\ workers'[w].audio_file = local
                   /\ files' = files]_vars

\* C5: the status a read reports follows the precedence, in the listing and
\* in the single-episode read alike: with a job reference it is the state the
\* executor reports ("unknown" when the executor cannot be asked), without
\* one it is "completed" when the audio reference is set and "pending" when
\* neither is set
C5_StatusPrecedence ==
    LET Follows(ep, st) ==
            IF ep.command # None THEN st \in {jobs[JobOf(ep.command)].status, "unknown"}
            ELSE IF ep.audio_file # None THEN st = "completed"
            ELSE st = "pending"
    IN  /\ resp.op = "list" => \A e \in DOMAIN resp.statuses : Follows(episodes[e], resp.statuses[e])
        /\ (resp.op = "get" /\ resp.code = 200) => Follows(episodes[resp.id], resp.job_status)

\* C6: between the submission of a job and the first run of its worker, every
\* status read of the episode created for it reports "pending"
C6_PendingBeforeWorkerRuns ==
    LET NotStarted(e) == \E j \in 1..Len(jobs) : jobs[j].target = e /\ jobs[j].attempts = 0
    IN  /\ resp.op = "list" =>
              \A e \in DOMAIN resp.statuses : NotStarted(e) => resp.statuses[e] = "pending"
        /\ (resp.op = "get" /\ resp.code = 200 /\ NotStarted(resp.id)) => resp.job_status = "pending"

\* a job submitted through the API whose (name, owner) no other job shares
SingleSubmission(j) ==
    /\ jobs[j].target # 0
    /\ \A k \in 1..Len(jobs) :
          (jobs[k].name = jobs[j].name /\ jobs[k].user_id = jobs[j].user_id) => k = j

C9_DeleteUsesStoredKey ==
    (resp.op = "delete" /\ Startswith(resp.audio, S3Scheme))
        => /\ ~resp.fs_touched
           /\ \A u \in uploaded : u.url = resp.audio => resp.s3_key = u.key

\* C10: whatever happens to the artifact (missing, the store call fails, the
\* client cannot be built, the unlink fails, the reference does not parse),
\* deleting an existing episode removes it and reports success, unless the
\* database delete itself fails
C10_DeleteBestEffort ==
    (resp.op = "delete" /\ resp.error \notin {"NotFound", "RuntimeError"})
        => (resp.code = 200 /\ episodes[resp.id].deleted)

\* C13: when the job reference of an episode is set and the executor cannot
\* be asked for its status, the read still answers 200 with "unknown" for
\* that episode; in a listing every episode of the user is there and the
\* others carry the status they would have had anyway; the audio reference
\* of a single-episode read is the stored one
C13_ExecutorFailureReadsUnknown ==
    LET Plain(ep) == IF ep.command # None THEN jobs[JobOf(ep.command)].status
                     ELSE IF ep.audio_file # None THEN "completed" ELSE "pending"
    IN  /\ \A e \in resp.failing : episodes[e].command # None
        /\ resp.op = "list" =>
              /\ resp.code = 200
              /\ DOMAIN resp.statuses = OwnedBy(resp.user)
              /\ \A e \in DOMAIN resp.statuses :
                    resp.statuses[e] = IF e \in resp.failing THEN "unknown" ELSE Plain(episodes[e])
        /\ (resp.op = "get" /\ resp.id \in resp.failing) =>
              /\ resp.code = 200
              /\ resp.job_status = "unknown"
              /\ resp.audio = episodes[resp.id].audio_file

\* a listing in which the query failed for one episode and another episode
\* shows its own status
C13_OneUnknownInListing ==
    /\ resp.op = "list"
    /\ \E e \in resp.failing : resp.statuses[e] = "unknown"
    /\ \E f \in DOMAIN resp.statuses : f \notin resp.failing /\ resp.statuses[f] = "pending"


\* C11: every temporary file made to stream an S3-backed artifact is removed
\* once its response has ended: a temporary file that is on the disk belongs
\* to a response that is still being sent
C11_TempFileRemovedAfterResponse ==
    \A t \in temps : t \in serving

\* C12: the audio endpoint answers 404 whenever the episode has no audio
\* reference or the referenced artifact is missing, be it a local file or an
\* object of the store (the client could be constructed)
C12_MissingArtifactIs404 ==
    LET Missing ==
            IF Startswith(resp.audio, S3Scheme)
            THEN \A u \in uploaded :
                    u.url = resp.audio => [bucket |-> env.bucket, key |-> u.key] \notin objects
            ELSE ResolveAudioPath(resp.audio) \notin files
    IN  (resp.op = "stream" /\ resp.error # "ClientBuildError"
            /\ (resp.audio = None \/ Missing))
        => resp.code = 404

\* C19: in one process at most one client handle is ever constructed,
\* whatever sequence of uploads, deletions and audio requests it serves
C19_AtMostOneClientHandle ==
    \A p \in DOMAIN handles : handles[p] <= 1

\* C14: two different (user_id, episode_id, filename) triples never yield
\* the same key
C14_BuildKeyInjective ==
    (pure.ka # None /\ pure.ka = pure.kb) => pure.a = pure.b

\* C14, amended: two triples yield the same key only if they agree once
\* each id is cut down to what follows its last colon, a missing owner is
\* read as "anonymous", and colons and spaces of the filename are read as
\* underscores
C14_BuildKeyInjectiveOnNormalised ==
    LET Suffix(id) == IF \E i \in 1..Len(id) : id[i] = ":"
                      THEN LET i == CHOOSE n \in 1..Len(id) :
                                       id[n] = ":" /\ \A m \in (n + 1)..Len(id) : id[m] # ":"
                           IN  SubSeq(id, i + 1, Len(id))
                      ELSE id
        Owner(t) == IF t.user_id = None THEN <<"anonymous">> ELSE Suffix(t.user_id)
        Under(c) == IF c \in {":", " "} THEN "_" ELSE c
        File(t) == [i \in 1..Len(t.filename) |-> Under(t.filename[i])]
    IN  (pure.ka # None /\ pure.ka = pure.kb)
            => /\ Owner(pure.a) = Owner(pure.b)
               /\ Suffix(pure.a.episode_id) = Suffix(pure.b.episode_id)
               /\ File(pure.a) = File(pure.b)

\* two different triples that agree once normalised, and their one key
C14_NormalisedTriplesShareKey ==
    /\ pure.ka # None /\ pure.ka = pure.kb
    /\ pure.a.user_id = <<":", "a">> /\ pure.b.user_id = <<"a">>
    /\ pure.a.filename = <<"f", ":", "g">> /\ pure.b.filename = <<"f", " ", "g">>

\* C15: the same arguments yield the same key, and an owner id or an episode
\* id that carries a colon-delimited table prefix yields the same key as its
\* bare, non-empty suffix, the other arguments being equal
C15_BuildKeyPrefixInsensitive ==
    LET Prefixed(x, y) == /\ Len(y) > 0 /\ Len(x) > Len(y) + 1
                          /\ \A i \in 1..Len(y) : y[i] # ":"
                          /\ x[Len(x) - Len(y)] = ":"
                          /\ SubSeq(x, Len(x) - Len(y) + 1, Len(x)) = y
        Same(x, y) == x = y \/ Prefixed(x, y) \/ Prefixed(y, x)
    IN  pure.ka # None =>
            /\ pure.a = pure.b => pure.ka = pure.kb
            /\ (/\ pure.a.user_id # None /\ pure.b.user_id # None
                /\ Same(pure.a.user_id, pure.b.user_id)
                /\ Same(pure.a.episode_id, pure.b.episode_id)
                /\ pure.a.filename = pure.b.filename) => pure.ka = pure.kb

\* a prefixed owner id and a prefixed episode id against their bare suffixes
C15_PrefixedAndBareCalled ==
    /\ pure.ka # None /\ pure.ka = pure.kb
    /\ pure.a.user_id = <<"a", ":", "a">> /\ pure.b.user_id = <<"a">>
    /\ pure.a.episode_id = <<"episode", ":", "e">> /\ pure.b.episode_id = <<"e">>
    /\ pure.a.filename = pure.b.filename

\* C16: no colon and no space anywhere in a key build_episode_asset_key
\* returns, in the owner segment, the episode segment or the filename segment
C16_KeyHasNoColonNoSpace ==
    pure.ka # None => \A i \in 1..Len(pure.ka) : pure.ka[i] \notin {":", " "}

\* C17: an upload has two outcomes for its caller, the worker: the canonical
\* reference s3://<bucket>/<key> after a successful transfer, or S3StorageError
\* and no reference after a failed one; no exception of the transfer itself
\* reaches the worker or leaves it
C17_UploadTwoOutcomes ==
    LET job == jobs[resp.job]
        key == BuildEpisodeAssetKey(job.user_id, EpisodeId(resp.id), Filename(job.name))
    IN  /\ (resp.op = "worker" /\ resp.success /\ resp.upload = "ok")
            => resp.audio = S3Scheme \o env.bucket \o <<"/">> \o key
        /\ (resp.op = "worker" /\ resp.success /\ resp.upload = "S3StorageError")
            => ~Startswith(resp.audio, S3Scheme)
        /\ resp.op \in {"worker", "escaped"}
            => resp.error \notin (TransferOutcomes \ {"ok"})

\* C18: is_s3_configured answers true exactly when S3_BUCKET_NAME,
\* AWS_ACCESS_KEY_ID and AWS_SECRET_ACCESS_KEY are all set, whatever the
\* region, the endpoint url and the form of the bucket name, and it answers
\* for the environment as it is at the call
C18_ConfiguredIffAllPresent ==
    resp.op = "configured"
        => (resp.configured <=> (env.bucket # None /\ env.key_id /\ env.secret))

\* C20: while one of the three variables is missing, generate_presigned_url
\* returns None, raises nothing, and neither builds a client nor calls one
C20_PresignUnconfiguredIsNone ==
    [][(resp'.op = "presign" /\ (env.bucket = None \/ ~env.key_id \/ ~env.secret))
          => /\ resp'.url = None /\ resp'.error = NoError /\ ~resp'.s3_called
             /\ client' = client /\ handles' = handles]_vars

\* a process that built its client while S3 was configured is asked for a
\* url after the secret has been removed
C20_PresignAfterSecretRemoved ==
    /\ resp.op = "presign" /\ resp.url = None /\ ~resp.s3_called
    /\ env.bucket # None /\ env.key_id /\ ~env.secret
    /\ client.api /\ handles.api = 1

\* C21: while S3 is not configured, deleting an episode whose audio reference
\* is an s3:// url calls no store and touches no local file, whereas deleting
\* one whose reference is a local path removes that file and nothing else
C21_UnconfiguredDeleteByTier ==
    [][(/\ resp'.op = "delete" /\ resp'.code = 200 /\ resp'.audio # None
        /\ (env.bucket = None \/ ~env.key_id \/ ~env.secret))
          => /\ ~resp'.s3_called
             /\ objects' = objects /\ client' = client /\ handles' = handles
             /\ IF Startswith(resp'.audio, S3Scheme)
                THEN ~resp'.fs_touched /\ files' = files
                ELSE resp'.fs_touched /\ files' = files \ {ResolveAudioPath(resp'.audio)}]_vars

\* an episode uploaded while S3 was configured is deleted after the secret
\* key has gone: its object stays in the store
C21_S3ReferenceDeletedUnconfigured ==
    /\ resp.op = "delete" /\ resp.code = 200
    /\ Startswith(resp.audio, S3Scheme) /\ ~resp.s3_called /\ ~resp.fs_touched
    /\ ~env.secret
    /\ [bucket |-> env.bucket, key |-> resp.s3_key] \in objects

\* C22: deleting an episode leaves every worker invocation and every command
\* as it was, and an invocation whose episode has been deleted (the one the
\* job was submitted with, before the lookup; the one it works on, after)
\* still moves on stage by stage or returns a structured result to the
\* executor: a final save on the deleted episode ends the run by a returned
\* result, never by an exception that leaves the command
C22_DeleteDoesNotRetractWorker ==
    [][/\ resp'.op = "delete" => (workers' = workers /\ jobs' = jobs)
       /\ \A w \in Workers :
            LET wk == workers[w]
                target == IF wk.ep # 0 THEN wk.ep ELSE jobs[wk.job].target
            IN  (/\ wk.pc # "idle" /\ workers'[w] # wk
                 /\ target # 0 /\ ~Live(target))
                  => \/ /\ workers'[w].pc \notin {"idle", wk.pc}
                        /\ workers'[w].job = wk.job
                        /\ wk.pc # "save"
                     \/ /\ workers'[w].pc = "idle"
                        /\ resp'.op = "worker" /\ resp'.job = wk.job
                        /\ jobs'[wk.job].status = "completed"]_vars

\* the episode was deleted after its artifact had been placed, and the run
\* has returned the failure of its final save
C22_SaveOnDeletedReturned ==
    /\ resp.op = "worker" /\ ~resp.success /\ resp.error = "RuntimeError"
    /\ resp.id # 0 /\ episodes[resp.id].deleted
    /\ resp.found

\* C23: the episode a worker settles on at the lookup is a pending one: it
\* matches the job's (name, owner), it has no audio reference, and no matching
\* episode without audio reference was created after it
C23_ReconciledTargetIsPending ==
    [][\A w \in Workers :
          (workers[w].pc = "lookup" /\ workers'[w].pc \in {"attach", "engine"})
            => LET job == jobs[workers[w].job]
                   e == workers'[w].ep
                   Pending == {f \in Matching(job.name, job.user_id) :
                                  episodes[f].audio_file = None}
               IN  e \in Pending /\ \A f \in Pending : f <= e]_vars

\* C24: a worker leaves the lookup for the fallback creation only when no
\* episode matches the job's (name, owner) at that moment, and the episode
\* the fallback creates carries the command of the running job
C24_FallbackOnlyWithoutMatch ==
    [][\A w \in Workers :
          LET job == jobs[workers[w].job] IN
          /\ (workers[w].pc = "lookup" /\ workers'[w].pc = "fallback")
                => Matching(job.name, job.user_id) = {}
          /\ (workers[w].pc = "fallback" /\ Len(episodes') > Len(episodes))
                => /\ episodes'[Len(episodes')].command = CommandId(workers[w].job)
                   /\ episodes'[Len(episodes')].audio_file = None]_vars

\* C25: an invocation of a job that went through the submission, whose
\* pending episode has not been deleted, leaves the lookup with an episode
\* matching the job's (name, owner) and never for the fallback creation
C25_SubmittedJobFindsTarget ==
    [][\A w \in Workers :
          LET job == jobs[workers[w].job] IN
          (/\ workers[w].pc = "lookup" /\ workers'[w] # workers[w]
           /\ job.target # 0 /\ Live(job.target))
            => /\ workers'[w].pc \in {"attach", "engine"}
               /\ workers'[w].ep \in Matching(job.name, job.user_id)]_vars

C27_StagesInOrder ==
    [][LET Successors(pc) ==
               CASE pc = "idle" -> {"profiles"}
                 [] pc = "profiles" -> {"lookup"}
                 [] pc = "lookup" -> {"attach", "fallback", "engine"}
                 [] pc = "attach" -> {"engine"}
                 [] pc = "fallback" -> {"engine"}
                 [] pc = "engine" -> {"place"}
                 [] pc = "place" -> {"save"}
                 [] OTHER -> {}
       IN
       \A w \in Workers :
          workers'[w] # workers[w]
            => \/ /\ workers'[w].pc \in Successors(workers[w].pc)
                  /\ workers[w].pc # "idle" => workers'[w].job = workers[w].job
                  /\ resp'.op = "none"
               \/ /\ workers[w].pc # "idle" /\ workers'[w] = IdleWorker
                  /\ resp'.op = "worker" /\ resp'.job = workers[w].job
                  /\ resp'.success => workers[w].pc = "save"
                  /\ ~resp'.success =>
                        (episodes' = episodes /\ files' = files /\ objects' = objects)]_vars

\* the engine has failed: the run has reported it, nothing has been placed
\* and the episode has no audio reference
C27_EngineFailureReported ==
    /\ resp.op = "worker" /\ ~resp.success /\ resp.error = "EngineError"
    /\ resp.id # 0 /\ episodes[resp.id].audio_file = None
    /\ files = {} /\ objects = {}

\* C28: the audio reference of an episode (and with it the transcript and
\* the outline, which the same save carries) is persisted only by the step
\* in which a run reports success for that episode; a run that reports
\* failure leaves the audio reference of every episode as it was
C28_ResultPersistedOnlyOnSuccess ==
    [][/\ \A e \in 1..Len(episodes) :
            (~episodes'[e].deleted /\ episodes'[e].audio_file # episodes[e].audio_file)
              => /\ resp'.op = "worker" /\ resp'.success /\ resp'.id = e
                 /\ resp'.audio = episodes'[e].audio_file
       /\ (resp'.op = "worker" /\ ~resp'.success)
            => \A e \in 1..Len(episodes) : episodes'[e].audio_file = episodes[e].audio_file
       /\ Len(episodes') > Len(episodes) => episodes'[Len(episodes')].audio_file = None]_vars

\* a run has failed at its final save after the artifact had been placed,
\* and the episode it worked on is still pending
C28_FailedRunLeftEpisodePending ==
    /\ resp.op = "worker" /\ ~resp.success /\ resp.error = "RuntimeError"
    /\ resp.found /\ resp.id # 0 /\ Live(resp.id)
    /\ episodes[resp.id].audio_file = None

\* C29: an audio reference a run has persisted names an artifact that was
\* there when it was placed: either the s3:// url of an upload that succeeded
\* in this run, or the resolved absolute path of the engine's file, which
\* final_audio_path.exists() had found; nothing is recorded when the engine
\* left no file at that place
C29_RecordedArtifactExists ==
    (resp.op = "worker" /\ resp.success)
        => /\ resp.found
           /\ resp.audio = episodes[resp.id].audio_file
           /\ IF Startswith(resp.audio, S3Scheme)
              THEN resp.upload = "ok" /\ \E u \in uploaded : u.url = resp.audio
              ELSE resp.audio = Resolve(FinalAudioPath(jobs[resp.job].name))

\* C30: the artifact an episode's audio reference names stays where it is
\* while other episodes are deleted or worked on: an artifact goes away only
\* by the deletion of its own episode or by a step of a worker invocation
\* running for its own episode
C30_ArtifactsIsolated ==
    [][LET Exists(audio, fs, os) ==
               IF Startswith(audio, S3Scheme)
               THEN \E u \in uploaded :
                       u.url = audio /\ [bucket |-> env.bucket, key |-> u.key] \in os
               ELSE ResolveAudioPath(audio) \in fs
       IN
       \A f \in 1..Len(episodes) :
          (/\ Live(f) /\ episodes[f].audio_file # None
           /\ Exists(episodes[f].audio_file, files, objects)
           /\ ~Exists(episodes[f].audio_file, files', objects'))
            => \/ resp'.op = "delete" /\ resp'.id = f
               \/ \E w \in Workers : workers[w].ep = f /\ workers'[w] # workers[w]]_vars

\* C31: when two jobs have been submitted for the same (name, owner), a run
\* that reports success for one of them has finalized that job's own
\* pre-created target: the target carries the job's own command reference and
\* the audio reference this run produced
C31_EachTargetFinalizedByOwnJob ==
    \A j \in 1..Len(jobs) :
       (/\ resp.op = "worker" /\ resp.success /\ resp.job = j
        /\ jobs[j].target # 0
        /\ \E k \in 1..Len(jobs) :
              /\ k # j /\ jobs[k].target # 0
              /\ jobs[k].name = jobs[j].name /\ jobs[k].user_id = jobs[j].user_id)
         => /\ resp.id = jobs[j].target
            /\ episodes[jobs[j].target].command = CommandId(j)
            /\ episodes[jobs[j].target].audio_file = resp.audio

\* C32: no artifact is lost during placement. A worker step removes the
\* engine's file only when its upload has succeeded, the object then being in
\* the store and the run's audio reference being the url upload_file returned
\* for build_episode_asset_key(owner, episode id, filename); and once the
\* engine has written the artifact of an episode (a run for it is past the
\* engine, or has recorded its audio reference), the artifact, which is in a
\* tier (the engine's file on disk, or the episode's object in the store),
\* stays in at least one tier for as long as the episode is not deleted
C32_ArtifactInSomeTier ==
    [][LET Path(e) == Resolve(FinalAudioPath(episodes[e].name))
           Key(e) == BuildEpisodeAssetKey(episodes[e].owner, EpisodeId(e),
                                          Filename(episodes[e].name))
           InSomeTier(e, fs, os) == Path(e) \in fs \/ \E o \in os : o.key = Key(e)
           Written(e) == \/ episodes[e].audio_file # None
                         \/ \E w \in Workers : /\ workers[w].ep = e
                                               /\ workers[w].pc \in {"place", "save"}
       IN
       /\ \A w \in Workers :
             (workers[w].pc = "place" /\ workers'[w] # workers[w] /\ files' # files)
               => /\ workers'[w].upload = "ok"
                  /\ \E o \in objects' : o.key = Key(workers[w].ep)
                  /\ workers'[w].audio_file = UploadUrl(env, Key(workers[w].ep))
       /\ \A e \in 1..Len(episodes) :
             (Live(e) /\ ~episodes'[e].deleted /\ Written(e) /\ InSomeTier(e, files, objects))
               => InSomeTier(e, files', objects')]_vars

\* C33: parsing the url upload_file returned yields exactly the key that was
\* uploaded, in every configuration in which the upload goes through; and
\* parsing a string that does not start with s3://, or that has no key part,
\* yields no bucket and no key
C33_UriRoundTrip ==
    LET rest == SubSeq(pure.text, Len(S3Scheme) + 1, Len(pure.text))
        no_key_part == ~Contains(rest, "/") \/ FirstIndex(rest, "/") = Len(rest)
    IN
    /\ pure.parsed # None => pure.parsed[2] = pure.key
    /\ (pure.parsed_text # None /\ (~Startswith(pure.text, S3Scheme) \/ no_key_part))
          => pure.parsed_text = <<None, None>>

\* C34: in every configuration the bucket the artifact is uploaded to, the
\* bucket the audio endpoint downloads from and the bucket delete_object
\* removes from are the same
C34_OneBucketForAllCalls ==
    pure.buckets # None
      => /\ pure.buckets.upload = pure.buckets.stream
         /\ pure.buckets.upload = pure.buckets.delete

\* C35: the error message of a failed run ends with the remediation hint
\* exactly when the failure is the engine returning an empty or unparsable
\* result; the failure of any other stage is reported with its own message
\* and no hint
C35_HintOnlyForUnparsableResult ==
    pure.error_message # None
      => IF IsUnparsableResult(pure.failure)
         THEN pure.error_message = Message(pure.failure) \o Hint
         ELSE pure.error_message = Message(pure.failure)

\* C36: an episode that has an owner is exposed to that owner only: the
\* single-episode read, the audio endpoint and the delete endpoint answer
\* with success for such an episode only when the requesting user is its owner
C36_OwnerOnly ==
    (/\ resp.op \in {"get", "stream", "delete"} /\ resp.code = 200
     /\ episodes[resp.id].owner # None)
      => episodes[resp.id].owner = UserId(caller)

\* C37: db_connection makes at most 3 connection attempts and stops at the
\* first one that succeeds; it has slept 2 seconds after the first failed
\* attempt and 4 after the second; after the third failure it raises and has
\* yielded nothing; and a connection that was yielded has been closed when
\* the scope is left, whether the body returned or raised
C37_BoundedRetryAndClose ==
    \A p \in Callers :
       LET c == conn[p] IN
       /\ c.made <= 3
       /\ c.slept = SubSeq(<<2, 4>>, 1, Len(c.slept))
       /\ c.yielded => c.made = c.failures + 1 /\ Len(c.slept) = c.failures
       /\ c.failures = 3 <=> c.pc = "raised"
       /\ c.pc = "raised" => ~c.yielded /\ c.slept = <<2, 4>>
       /\ c.pc = "exited" => c.yielded /\ c.closed /\ c.body \in {"returned", "raised"}

\* a connection obtained at the third attempt, after sleeps of 2 and 4
\* seconds, has been closed although the body raised
C37_ClosedAfterBodyRaised ==
    \E p \in Callers :
       /\ conn[p].pc = "exited" /\ conn[p].body = "raised" /\ conn[p].closed
       /\ conn[p].made = 3 /\ conn[p].slept = <<2, 4>>

====
